---- MODULE Spec2Model ----
(***************************************************************************)
(* Frame pacing and resource lifecycle of the Prometheus engine            *)
(* (src/src/engine.h, src/src/engine.cpp): DeletionQueue, the per-frame    *)
(* slots, PrometheusInstance::MainLoop / Draw / ShutDown, with the GPU     *)
(* queue and the presentation engine as asynchronous processes.            *)
(***************************************************************************)
EXTENDS Integers, Sequences, FiniteSets, TLC

\* ------------------------------------------------------------------ bounds
\* frames the render loop may draw
MaxFrames == 4
\* pending SDL events the event queue may hold
MaxEvents == 2
\* registrations / flushes exercised on the stand-alone DeletionQueue
MaxPush == 4
MaxFlush == 3
\* ShutDown calls made on one instance
MaxShutDowns == 2
\* immediate_submit calls made on one instance
MaxImmediate == 2
\* swapchain recreations made on one instance
MaxRecreate == 3
\* Init / ShutDown calls made on the instances of one process
MaxCalls == 4

\* ------------------------------------------------------- program constants
FRAME_OVERLAP == 2

Slots == 0 .. (FRAME_OVERLAP - 1)

\* cleanup closures a caller may hand to DeletionQueue::push_function
Closures == {"A", "B"}

\* SDL events MainLoop distinguishes; every other event type is "OTHER"
EventTypes == {"SDL_QUIT", "MINIMIZED", "RESTORED", "OTHER"}

\* positions of the CPU thread inside Draw, and inside MainLoop as a whole
DrawPcs == {"draw_wait", "draw_flush", "draw_reset_fence", "draw_acquire",
            "draw_record", "draw_submit", "draw_present", "draw_advance"}
LoopPcs == {"loop_test", "poll", "sleep"} \cup DrawPcs
\* positions inside immediate_submit
ImmediatePcs == {"imm_record", "imm_submit", "imm_wait"}
\* extents a caller may request of createSwapchain
Widths == {640, 800, 1280, 1700, 1920}
Heights == {480, 600, 720, 900, 1080}
\* PrometheusInstance objects a program may construct
Instances == {"a", "b", "c"}

\* results of the Vulkan calls whose outcome Draw passes to VK_CHECK
VK_SUCCESS == "VK_SUCCESS"
VK_TIMEOUT == "VK_TIMEOUT"
VK_ERROR_OUT_OF_DATE_KHR == "VK_ERROR_OUT_OF_DATE_KHR"
AcquireResults == {VK_SUCCESS, VK_TIMEOUT, VK_ERROR_OUT_OF_DATE_KHR}
PresentResults == {VK_SUCCESS, VK_ERROR_OUT_OF_DATE_KHR}

VARIABLES
    \* ---- PrometheusInstance fields
    isInitialized, stopRendering, frameNumber,
    renderFence,        \* frameData[i].renderFence: "signaled" / "unsignaled"
    swapchainSemaphore, \* frameData[i].swapchainSemaphore
    renderSemaphore,    \* frameData[i].renderSemaphore
    mainCommandBuffer,  \* frameData[i].mainCommandBuffer state
    deletionQueue,      \* frameData[i].deletionQueue.deletors
    mainDeletionQueue,  \* mainDeletionQueue.deletors
    \* ---- the thread of control
    pc,                 \* position of the CPU thread
    quit,               \* MainLoop's local
    events,             \* SDL's queue of pending events
    acquireResult,      \* result of the last vkAcquireNextImageKHR
    \* ---- the device
    gpuPending,         \* per slot: submissions the GPU has not completed
    presentPending,     \* per slot: presents the presentation engine has not done
    \* ---- observation (history) of the run
    executed,           \* cleanup closures run by the engine's queues, in order
    waitObserved,       \* per slot: fence waits of Draw that returned VK_SUCCESS
    flushCount,         \* per slot: flushes of the slot's queue done by Draw
    nSubmit,            \* vkQueueSubmit2 calls issued by Draw
    nPresent,           \* vkQueuePresentKHR calls issued by Draw
    nCompleted,         \* submissions the GPU has completed
    lastPolled,         \* the event type SDL_PollEvent returned last
    drawsSinceQuit,     \* Draw calls begun after SDL_QUIT was polled
    \* ---- a stand-alone DeletionQueue driven by arbitrary callers
    deletors,           \* its std::deque
    dqRun,              \* the closures its last flush called, in call order
    dqLog,              \* every closure call it ever made, in order
    dqNextId,           \* registrations so far
    dqFlushes,          \* flushes so far
    \* ---- further observation of the run
    waitResult,         \* result of the last vkWaitForFences of Draw
    resetCount,         \* per slot: vkResetFences calls of Draw
    waitedSinceSignal,  \* per slot: a fence wait returned since the fence was last signaled
    availCount,         \* per slot: acquired images made available (semaphore signals)
    doneCount,          \* per slot: submissions the GPU has completed
    shownCount,         \* per slot: presents the presentation engine has done
    \* ---- the immediate-submit channel
    immediateFence, immediateCommandBuffer,
    immPending,         \* immediate submissions the GPU has not completed
    nImmediate,         \* immediate_submit calls begun
    \* ---- the swapchain and the draw image
    swapchain,          \* [live, extent]: swapchain handle and swapchainExtent
    drawImage,          \* [live, format, extent]: drawImage
    nCreate,            \* createSwapchain calls so far
    \* ---- further observation of the run
    drawLog,            \* the calls of the current (or last) Draw, in order
    drawImageReleases,  \* per createSwapchain call: releases of the image it created
    \* ---- the global engine pointer (src/Prometheus/engine.cpp)
    currentInstance,    \* PrometheusInstance* currentInstance
    instances,          \* per instance: [isInitialized, window]
    nCalls              \* Init / ShutDown calls made on the instances

engineVars == <<isInitialized, stopRendering, frameNumber, renderFence,
                swapchainSemaphore, renderSemaphore, mainCommandBuffer,
                deletionQueue, mainDeletionQueue>>
cpuVars == <<pc, quit, events, acquireResult>>
gpuVars == <<gpuPending, presentPending>>
histVars == <<executed, waitObserved, flushCount, nSubmit, nPresent,
              nCompleted, lastPolled, drawsSinceQuit>>
dqVars == <<deletors, dqRun, dqLog, dqNextId, dqFlushes>>
obsVars == <<waitResult, resetCount, waitedSinceSignal, availCount, doneCount,
             shownCount>>
immVars == <<immediateFence, immediateCommandBuffer, immPending, nImmediate>>
swapVars == <<swapchain, drawImage, nCreate>>
instVars == <<currentInstance, instances, nCalls>>
auxVars == <<drawLog, drawImageReleases, instVars>>
vars == <<engineVars, cpuVars, gpuVars, histVars, dqVars, obsVars, immVars, swapVars,
          auxVars>>

\* ---------------------------------------------------------- DeletionQueue
\* deletors.push_back( function )
push_function(q, function) == Append(q, function)

\* the calls of the loop  for ( it = rbegin(); it != rend(); it++ ) (*it)();
\* with the reverse iterator standing on element n, then n-1, ... 1
RECURSIVE reverseIterate(_, _)
reverseIterate(q, n) ==
    IF n = 0 THEN <<>> ELSE <<q[n]>> \o reverseIterate(q, n - 1)

\* a forward iteration (begin() to end()) of the same deque
RECURSIVE forwardIterate(_, _)
forwardIterate(q, n) ==
    IF n > Len(q) THEN <<>> ELSE <<q[n]>> \o forwardIterate(q, n + 1)

flushCallsForward(q) == forwardIterate(q, 1)

\* an iteration that stops one short of rend(): the first registration is not called
flushCallsSkipFirst(q) ==
    IF Len(q) = 0 THEN <<>>
    ELSE [i \in 1 .. (Len(q) - 1) |-> reverseIterate(q, Len(q))[i]]

\* the closures flush() calls, in call order
flushCalls(q) == reverseIterate(q, Len(q))

\* a flush that forgets deletors.clear()
flushKeepsDeletors(q) == q

\* deletors.clear()
flushClear(q) == <<>>

\* ------------------------------------------- stand-alone DeletionQueue
\* a caller registers closure f; the entry remembers its registration number
\* and the number of flushes that preceded it (observation only)
DQPush(f) ==
    /\ dqNextId < MaxPush
    /\ deletors' = push_function(deletors, [id |-> dqNextId, fn |-> f, epoch |-> dqFlushes])
    /\ dqNextId' = dqNextId + 1
    /\ UNCHANGED <<dqRun, dqLog, dqFlushes>>

DQFlush ==
    /\ dqFlushes < MaxFlush
    /\ dqRun' = flushCalls(deletors)
    /\ dqLog' = dqLog \o [i \in 1 .. Len(flushCalls(deletors)) |->
                            [id |-> flushCalls(deletors)[i].id,
                             fn |-> flushCalls(deletors)[i].fn,
                             epoch |-> flushCalls(deletors)[i].epoch,
                             flush |-> dqFlushes + 1]]
    /\ deletors' = flushClear(deletors)
    /\ dqFlushes' = dqFlushes + 1
    /\ UNCHANGED dqNextId

NextDQ ==
    \/ \E f \in Closures : DQPush(f) /\ UNCHANGED <<engineVars, cpuVars, gpuVars, histVars, obsVars, immVars, swapVars, auxVars>>
    \/ DQFlush /\ UNCHANGED <<engineVars, cpuVars, gpuVars, histVars, obsVars, immVars, swapVars, auxVars>>

Init ==
    /\ isInitialized = FALSE
    /\ stopRendering = FALSE
    /\ frameNumber = 0
    /\ renderFence = [s \in Slots |-> "none"]
    /\ swapchainSemaphore = [s \in Slots |-> "none"]
    /\ renderSemaphore = [s \in Slots |-> "none"]
    /\ mainCommandBuffer = [s \in Slots |-> "none"]
    /\ deletionQueue = [s \in Slots |-> <<>>]
    /\ mainDeletionQueue = <<>>
    /\ pc = "constructed"
    /\ quit = FALSE
    /\ events = <<>>
    /\ acquireResult = "none"
    /\ gpuPending = [s \in Slots |-> 0]
    /\ presentPending = [s \in Slots |-> 0]
    /\ executed = <<>>
    /\ waitObserved = [s \in Slots |-> 0]
    /\ flushCount = [s \in Slots |-> 0]
    /\ nSubmit = 0
    /\ nPresent = 0
    /\ nCompleted = 0
    /\ lastPolled = "none"
    /\ drawsSinceQuit = 0
    /\ deletors = <<>>
    /\ dqRun = <<>>
    /\ dqLog = <<>>
    /\ dqNextId = 0
    /\ dqFlushes = 0
    /\ waitResult = "none"
    /\ resetCount = [s \in Slots |-> 0]
    /\ waitedSinceSignal = [s \in Slots |-> FALSE]
    /\ availCount = [s \in Slots |-> 0]
    /\ doneCount = [s \in Slots |-> 0]
    /\ shownCount = [s \in Slots |-> 0]
    /\ immediateFence = "none"
    /\ immediateCommandBuffer = "none"
    /\ immPending = 0
    /\ nImmediate = 0
    /\ swapchain = [live |-> FALSE, extent |-> <<0, 0>>]
    /\ drawImage = [live |-> FALSE, format |-> "none", extent |-> <<0, 0>>]
    /\ nCreate = 0
    /\ drawLog = <<>>
    /\ drawImageReleases = <<>>
    /\ currentInstance = "nullptr"
    /\ instances = [i \in Instances |-> [isInitialized |-> FALSE, window |-> "none"]]
    /\ nCalls = 0

SpecDQ == Init /\ [][NextDQ]_vars

\* ------------------------------------------------------------ the engine
\* frameData[ frameNumber % FRAME_OVERLAP ]
getCurrentFrameAlwaysZero(n) == 0
getCurrentFrame(n) == n % FRAME_OVERLAP

CurrentSlot == getCurrentFrame(frameNumber)

\* VK_CHECK( x ): TRUE when control continues past it; any other result is fatal
VK_CHECK(result) == result = VK_SUCCESS

\* vkWaitForFences( ..., waitAll, 1000000000 ) on one fence: VK_SUCCESS once the
\* fence is signaled, VK_TIMEOUT when the second elapses first
vkWaitForFencesNoWait(fence) == VK_SUCCESS
vkWaitForFences(fence) == IF fence = "signaled" THEN VK_SUCCESS ELSE VK_TIMEOUT

\* the closures Init's helpers register with mainDeletionQueue, in call order:
\* initVulkan, initSwapchain/createSwapchain, initCommandStructures,
\* initSyncStructures, initDescriptors, initBackgroundPipelines,
\* initTrianglePipeline, initImgui
InitRegistrations ==
    <<"vmaDestroyAllocator", "destroyDrawImage", "destroyImmediateCommandPool",
      "destroyImmediateFence", "destroyDescriptors", "destroyGradientPipeline",
      "destroyTrianglePipeline", "shutdownImgui">>

RECURSIVE pushAll(_, _, _)
pushAll(q, fs, i) ==
    IF i > Len(fs) THEN q ELSE pushAll(push_function(q, fs[i]), fs, i + 1)

\* VkExtent2D windowExtent { 1700 , 900 }
windowExtent == <<1700, 900>>

\* createSwapchain( w, h ): the swapchain is built with the desired extent (w, h)
swapchainCreated(w, h) == [live |-> TRUE, extent |-> <<w, h>>]

\* createSwapchain( w, h ): drawImage is created with the hard-coded format and
\* with drawImageExtent = { windowExtent.width, windowExtent.height, 1 }
drawImageCreated(w, h) ==
    [live |-> TRUE, format |-> "VK_FORMAT_R16G16B16A16_SFLOAT", extent |-> windowExtent]

\* vkinit::fence_create_info( VK_FENCE_CREATE_SIGNALED_BIT ): the state in which
\* initSyncStructures creates every fence
fenceCreatedUnsignaled == "unsignaled"
fenceCreated == "signaled"

\* PrometheusInstance::Init
EngineInit ==
    /\ pc = "constructed"
    /\ mainDeletionQueue' = pushAll(mainDeletionQueue, InitRegistrations, 1)
    /\ renderFence' = [s \in Slots |-> fenceCreated]
    /\ immediateFence' = fenceCreated
    /\ immediateCommandBuffer' = "initial"
    /\ swapchain' = swapchainCreated(windowExtent[1], windowExtent[2])
    /\ drawImage' = drawImageCreated(windowExtent[1], windowExtent[2])
    /\ nCreate' = 1
    /\ drawImageReleases' = <<0>>
    /\ UNCHANGED <<drawLog, instVars>>
    /\ swapchainSemaphore' = [s \in Slots |-> "unsignaled"]
    /\ renderSemaphore' = [s \in Slots |-> "unsignaled"]
    /\ mainCommandBuffer' = [s \in Slots |-> "initial"]
    /\ isInitialized' = TRUE
    /\ pc' = "initialized"
    /\ UNCHANGED <<stopRendering, frameNumber, deletionQueue, quit, events,
                   acquireResult, gpuVars, histVars, dqVars>>
    /\ UNCHANGED <<obsVars, immPending, nImmediate>>

\* MainLoop entered: bool quit = false
MainLoopEnter ==
    /\ pc = "initialized"
    /\ quit' = FALSE
    /\ pc' = "loop_test"
    /\ UNCHANGED <<engineVars, events, acquireResult, gpuVars, histVars, dqVars>>
    /\ UNCHANGED <<obsVars, immVars, swapVars, auxVars>>

\* while ( !quit )
loopContinuesAlways(q) == TRUE
loopContinues(q) == ~q

LoopTest ==
    /\ pc = "loop_test"
    /\ pc' = IF loopContinues(quit) THEN "poll" ELSE "loop_exited"
    /\ UNCHANGED <<engineVars, quit, events, acquireResult, gpuVars, histVars, dqVars>>
    /\ UNCHANGED <<obsVars, immVars, swapVars, auxVars>>

\* the body of the event loop, applied to the polled event e
quitAfter(e, q) == IF e = "SDL_QUIT" THEN TRUE ELSE q

stopRenderingIgnoresMinimize(e, sr) == IF e = "RESTORED" THEN FALSE ELSE sr
stopRenderingAfter(e, sr) ==
    IF e = "MINIMIZED" THEN TRUE
    ELSE IF e = "RESTORED" THEN FALSE
    ELSE sr

\* while ( SDL_PollEvent( &e ) != 0 ) { ... }: one event taken and handled
PollEvent ==
    /\ pc = "poll"
    /\ events # <<>>
    /\ quit' = quitAfter(Head(events), quit)
    /\ stopRendering' = stopRenderingAfter(Head(events), stopRendering)
    /\ lastPolled' = Head(events)
    /\ events' = Tail(events)
    /\ UNCHANGED <<isInitialized, frameNumber, renderFence, swapchainSemaphore,
                   renderSemaphore, mainCommandBuffer, deletionQueue,
                   mainDeletionQueue, pc, acquireResult, gpuVars, executed,
                   waitObserved, flushCount, nSubmit, nPresent, nCompleted,
                   drawsSinceQuit, dqVars>>
    /\ UNCHANGED <<obsVars, immVars, swapVars, auxVars>>

\* if ( stopRendering ) : the branch that skips Draw
skipsDrawNever(sr) == FALSE
skipsDraw(sr) == sr

\* SDL_PollEvent returned 0 and stopRendering holds: go to sleep
BranchPaused ==
    /\ pc = "poll"
    /\ events = <<>>
    /\ skipsDraw(stopRendering)
    /\ pc' = "sleep"
    /\ UNCHANGED <<engineVars, quit, events, acquireResult, gpuVars, histVars, dqVars>>
    /\ UNCHANGED <<obsVars, immVars, swapVars, auxVars>>

\* std::this_thread::sleep_for( 100 ms ) returns
Sleep ==
    /\ pc = "sleep"
    /\ pc' = "loop_test"
    /\ UNCHANGED <<engineVars, quit, events, acquireResult, gpuVars, histVars, dqVars>>
    /\ UNCHANGED <<obsVars, immVars, swapVars, auxVars>>

\* SDL_PollEvent returned 0 and stopRendering does not hold: Draw() is called
BranchDraw ==
    /\ pc = "poll"
    /\ events = <<>>
    /\ ~skipsDraw(stopRendering)
    /\ frameNumber < MaxFrames
    /\ pc' = "draw_wait"
    /\ drawsSinceQuit' = IF quit THEN drawsSinceQuit + 1 ELSE drawsSinceQuit
    /\ UNCHANGED <<engineVars, quit, events, acquireResult, gpuVars, executed,
                   waitObserved, flushCount, nSubmit, nPresent, nCompleted,
                   lastPolled, dqVars>>
    /\ UNCHANGED <<obsVars, immVars, swapVars, drawImageReleases, instVars>>
    /\ drawLog' = <<>>

\* where Draw goes with the result r of its fence wait: the call is wrapped in
\* VK_CHECK, so only a successful wait reaches the flush
afterFenceWaitUnchecked(r) == "draw_flush"
afterFenceWait(r) == IF VK_CHECK(r) THEN "draw_flush" ELSE "aborted"

\* VK_CHECK( vkWaitForFences( renderFence ) ): returns when the fence is
\* signaled; while it is not, the call blocks and may time out
DrawWait ==
    /\ pc = "draw_wait"
    /\ LET r == vkWaitForFences(renderFence[CurrentSlot]) IN
         /\ pc' = afterFenceWait(r)
         /\ waitResult' = r
         /\ waitObserved' = IF r = VK_SUCCESS
                              THEN [waitObserved EXCEPT ![CurrentSlot] = @ + 1]
                              ELSE waitObserved
         /\ waitedSinceSignal' = IF r = VK_SUCCESS
                                   THEN [waitedSinceSignal EXCEPT ![CurrentSlot] = TRUE]
                                   ELSE waitedSinceSignal
    /\ UNCHANGED <<engineVars, quit, events, acquireResult, gpuVars, executed,
                   flushCount, nSubmit, nPresent, nCompleted, lastPolled,
                   drawsSinceQuit, dqVars>>
    /\ UNCHANGED <<resetCount, availCount, doneCount, shownCount, immVars, swapVars, drawImageReleases, instVars>>
    /\ drawLog' = Append(drawLog, "vkWaitForFences")

\* getCurrentFrame().deletionQueue.flush()
DrawFlush ==
    /\ pc = "draw_flush"
    /\ executed' = executed \o flushCalls(deletionQueue[CurrentSlot])
    /\ deletionQueue' = [deletionQueue EXCEPT ![CurrentSlot] = flushClear(@)]
    /\ flushCount' = [flushCount EXCEPT ![CurrentSlot] = @ + 1]
    /\ pc' = "draw_reset_fence"
    /\ UNCHANGED <<isInitialized, stopRendering, frameNumber, renderFence,
                   swapchainSemaphore, renderSemaphore, mainCommandBuffer,
                   mainDeletionQueue, quit, events, acquireResult, gpuVars,
                   waitObserved, nSubmit, nPresent, nCompleted, lastPolled,
                   drawsSinceQuit, dqVars>>
    /\ UNCHANGED <<obsVars, immVars, swapVars, drawImageReleases, instVars>>
    /\ drawLog' = Append(drawLog, "deletionQueue.flush")

\* VK_CHECK( vkResetFences( renderFence ) )
DrawResetFence ==
    /\ pc = "draw_reset_fence"
    /\ renderFence' = [renderFence EXCEPT ![CurrentSlot] = "unsignaled"]
    /\ pc' = "draw_acquire"
    /\ UNCHANGED <<isInitialized, stopRendering, frameNumber, swapchainSemaphore,
                   renderSemaphore, mainCommandBuffer, deletionQueue,
                   mainDeletionQueue, quit, events, acquireResult, gpuVars,
                   histVars, dqVars>>
    /\ resetCount' = [resetCount EXCEPT ![CurrentSlot] = @ + 1]
    /\ UNCHANGED <<waitResult, waitedSinceSignal, availCount, doneCount, shownCount,
                   immVars, swapVars, drawImageReleases, instVars>>
    /\ drawLog' = Append(drawLog, "vkResetFences")

\* VK_CHECK( vkAcquireNextImageKHR( ..., swapchainSemaphore, ... ) ): on success
\* the presentation engine will signal the semaphore when the image is free
DrawAcquire ==
    /\ pc = "draw_acquire"
    /\ \E r \in AcquireResults :
         /\ acquireResult' = r
         /\ pc' = IF VK_CHECK(r) THEN "draw_record" ELSE "aborted"
         /\ swapchainSemaphore' =
              IF r = VK_SUCCESS
                THEN [swapchainSemaphore EXCEPT ![CurrentSlot] = "pending"]
                ELSE swapchainSemaphore
    /\ UNCHANGED <<isInitialized, stopRendering, frameNumber, renderFence,
                   renderSemaphore, mainCommandBuffer, deletionQueue,
                   mainDeletionQueue, quit, events, gpuVars, histVars, dqVars>>
    /\ UNCHANGED <<obsVars, immVars, swapVars, drawImageReleases, instVars>>
    /\ drawLog' = Append(drawLog, "vkAcquireNextImageKHR")

\* the calls Draw makes on the command buffer between the acquire and the
\* submit: vkResetCommandBuffer, vkBeginCommandBuffer, the recorded commands,
\* vkEndCommandBuffer
recordCallsWithoutReset == <<"vkBeginCommandBuffer", "vkEndCommandBuffer">>
recordCalls == <<"vkResetCommandBuffer", "vkBeginCommandBuffer", "vkEndCommandBuffer">>

\* vkResetCommandBuffer, vkBeginCommandBuffer, the recorded commands,
\* vkEndCommandBuffer: the buffer is left executable
DrawRecord ==
    /\ pc = "draw_record"
    /\ mainCommandBuffer' = [mainCommandBuffer EXCEPT ![CurrentSlot] = "executable"]
    /\ pc' = "draw_submit"
    /\ UNCHANGED <<isInitialized, stopRendering, frameNumber, renderFence,
                   swapchainSemaphore, renderSemaphore, deletionQueue,
                   mainDeletionQueue, quit, events, acquireResult, gpuVars,
                   histVars, dqVars>>
    /\ UNCHANGED <<obsVars, immVars, swapVars, drawImageReleases, instVars>>
    /\ drawLog' = drawLog \o recordCalls

\* VK_CHECK( vkQueueSubmit2( graphicsQueue, 1, &submit, renderFence ) )
DrawSubmit ==
    /\ pc = "draw_submit"
    /\ gpuPending' = [gpuPending EXCEPT ![CurrentSlot] = @ + 1]
    /\ mainCommandBuffer' = [mainCommandBuffer EXCEPT ![CurrentSlot] = "pending"]
    /\ nSubmit' = nSubmit + 1
    /\ pc' = "draw_present"
    /\ UNCHANGED <<isInitialized, stopRendering, frameNumber, renderFence,
                   swapchainSemaphore, renderSemaphore, deletionQueue,
                   mainDeletionQueue, quit, events, acquireResult,
                   presentPending, executed, waitObserved, flushCount, nPresent,
                   nCompleted, lastPolled, drawsSinceQuit, dqVars>>
    /\ UNCHANGED <<obsVars, immVars, swapVars, drawImageReleases, instVars>>
    /\ drawLog' = Append(drawLog, "vkQueueSubmit2")

\* VK_CHECK( vkQueuePresentKHR( graphicsQueue, &presentInfo ) )
DrawPresent ==
    /\ pc = "draw_present"
    /\ nPresent' = nPresent + 1
    /\ \E r \in PresentResults :
         /\ pc' = IF VK_CHECK(r) THEN "draw_advance" ELSE "aborted"
         /\ presentPending' =
              IF r = VK_SUCCESS
                THEN [presentPending EXCEPT ![CurrentSlot] = @ + 1]
                ELSE presentPending
    /\ UNCHANGED <<engineVars, quit, events, acquireResult, gpuPending, executed,
                   waitObserved, flushCount, nSubmit, nCompleted, lastPolled,
                   drawsSinceQuit, dqVars>>
    /\ UNCHANGED <<obsVars, immVars, swapVars, drawImageReleases, instVars>>
    /\ drawLog' = Append(drawLog, "vkQueuePresentKHR")

\* frameNumber++
frameNumberSkips(n) == n + 2
frameNumberIncremented(n) == n + 1

DrawAdvance ==
    /\ pc = "draw_advance"
    /\ frameNumber' = frameNumberIncremented(frameNumber)
    /\ pc' = "loop_test"
    /\ UNCHANGED <<isInitialized, stopRendering, renderFence, swapchainSemaphore,
                   renderSemaphore, mainCommandBuffer, deletionQueue,
                   mainDeletionQueue, quit, events, acquireResult, gpuVars,
                   histVars, dqVars>>
    /\ UNCHANGED <<obsVars, immVars, swapVars, drawImageReleases, instVars>>
    /\ drawLog' = Append(drawLog, "frameNumber++")

\* ---------------------------------------------------------------- device
\* the presentation engine makes the acquired image available: it signals the
\* semaphore handed to vkAcquireNextImageKHR
ImageAvailable(s) ==
    /\ swapchainSemaphore[s] = "pending"
    /\ swapchainSemaphore' = [swapchainSemaphore EXCEPT ![s] = "signaled"]
    /\ UNCHANGED <<isInitialized, stopRendering, frameNumber, renderFence,
                   renderSemaphore, mainCommandBuffer, deletionQueue,
                   mainDeletionQueue, cpuVars, gpuVars, histVars, dqVars>>
    /\ availCount' = [availCount EXCEPT ![s] = @ + 1]
    /\ UNCHANGED <<waitResult, resetCount, waitedSinceSignal, doneCount, shownCount,
                   immVars, swapVars, auxVars>>

\* the queue executes a submission of slot s: it waits on (and unsignals)
\* swapchainSemaphore, runs the command buffer, then signals renderSemaphore and
\* the fence given to vkQueueSubmit2
GPUComplete(s) ==
    /\ gpuPending[s] > 0
    /\ swapchainSemaphore[s] = "signaled"
    /\ swapchainSemaphore' = [swapchainSemaphore EXCEPT ![s] = "unsignaled"]
    /\ renderSemaphore' = [renderSemaphore EXCEPT ![s] = "signaled"]
    /\ renderFence' = [renderFence EXCEPT ![s] = "signaled"]
    /\ mainCommandBuffer' = [mainCommandBuffer EXCEPT ![s] = "invalid"]
    /\ gpuPending' = [gpuPending EXCEPT ![s] = @ - 1]
    /\ nCompleted' = nCompleted + 1
    /\ UNCHANGED <<isInitialized, stopRendering, frameNumber, deletionQueue,
                   mainDeletionQueue, cpuVars, presentPending, executed,
                   waitObserved, flushCount, nSubmit, nPresent, lastPolled,
                   drawsSinceQuit, dqVars>>
    /\ doneCount' = [doneCount EXCEPT ![s] = @ + 1]
    /\ waitedSinceSignal' = [waitedSinceSignal EXCEPT ![s] = FALSE]
    /\ UNCHANGED <<waitResult, resetCount, availCount, shownCount, immVars, swapVars, auxVars>>

\* presentInfo.pWaitSemaphores = &getCurrentFrame().renderSemaphore: the slot
\* whose render semaphore the present of slot s waits on
presentWaitsOtherSlot(s) == (s + 1) % FRAME_OVERLAP
presentWaits(s) == s

\* the presentation engine performs a queued present of slot s: it waits on
\* (and unsignals) renderSemaphore
PresentDone(s) ==
    /\ presentPending[s] > 0
    /\ renderSemaphore[presentWaits(s)] = "signaled"
    /\ renderSemaphore' = [renderSemaphore EXCEPT ![presentWaits(s)] = "unsignaled"]
    /\ presentPending' = [presentPending EXCEPT ![s] = @ - 1]
    /\ UNCHANGED <<isInitialized, stopRendering, frameNumber, renderFence,
                   swapchainSemaphore, mainCommandBuffer, deletionQueue,
                   mainDeletionQueue, cpuVars, gpuPending, histVars, dqVars>>
    /\ shownCount' = [shownCount EXCEPT ![s] = @ + 1]
    /\ UNCHANGED <<waitResult, resetCount, waitedSinceSignal, availCount, doneCount,
                   immVars, swapVars, auxVars>>

\* the window system delivers an event to SDL's queue
PostEvent(e) ==
    /\ pc \in LoopPcs
    /\ Len(events) < MaxEvents
    /\ events' = Append(events, e)
    /\ UNCHANGED <<engineVars, pc, quit, acquireResult, gpuVars, histVars, dqVars>>
    /\ UNCHANGED <<obsVars, immVars, swapVars, auxVars>>

\* ------------------------------------------------------ immediate_submit
\* vkinit::submit_info( &cmdinfo, nullptr, nullptr ): the slots whose semaphores
\* the immediate submission signals (no signal and no wait semaphore info)
immediateSignalsSlotZero == {0}
immediateSignals == {}

\* immediate_submit entered, on the thread that runs the frame loop, between two
\* iterations (frames may still be executing on the device):
\* vkResetFences( immediateFence ), vkResetCommandBuffer
ImmediateReset ==
    /\ pc = "loop_test"
    /\ isInitialized
    /\ nImmediate < MaxImmediate
    /\ immediateFence' = "unsignaled"
    /\ immediateCommandBuffer' = "initial"
    /\ nImmediate' = nImmediate + 1
    /\ pc' = "imm_record"
    /\ UNCHANGED <<engineVars, quit, events, acquireResult, gpuVars, histVars,
                   dqVars, obsVars, immPending, swapVars, auxVars>>

\* vkBeginCommandBuffer; function( cmd ); vkEndCommandBuffer
ImmediateRecord ==
    /\ pc = "imm_record"
    /\ immediateCommandBuffer' = "executable"
    /\ pc' = "imm_submit"
    /\ UNCHANGED <<engineVars, quit, events, acquireResult, gpuVars, histVars,
                   dqVars, obsVars, immediateFence, immPending, nImmediate, swapVars, auxVars>>

\* VK_CHECK( vkQueueSubmit2( graphicsQueue, 1, &submit, immediateFence ) )
ImmediateSubmit ==
    /\ pc = "imm_submit"
    /\ immediateCommandBuffer' = "pending"
    /\ immPending' = immPending + 1
    /\ pc' = "imm_wait"
    /\ UNCHANGED <<engineVars, quit, events, acquireResult, gpuVars, histVars,
                   dqVars, obsVars, immediateFence, nImmediate, swapVars, auxVars>>

\* the queue executes the immediate submission: it waits on no semaphore, runs
\* the command buffer, then signals the semaphores of the submit info and the
\* fence given to vkQueueSubmit2
GPUCompleteImmediate ==
    /\ immPending > 0
    /\ immPending' = immPending - 1
    /\ immediateFence' = "signaled"
    /\ immediateCommandBuffer' = "invalid"
    /\ renderSemaphore' = [s \in Slots |-> IF s \in immediateSignals
                                            THEN "signaled"
                                            ELSE renderSemaphore[s]]
    /\ UNCHANGED <<isInitialized, stopRendering, frameNumber, renderFence,
                   swapchainSemaphore, mainCommandBuffer, deletionQueue,
                   mainDeletionQueue, cpuVars, gpuVars, histVars, dqVars,
                   obsVars, nImmediate, swapVars, auxVars>>

\* VK_CHECK( vkWaitForFences( device, 1, &immediateFence, true, 9999999999 ) ):
\* returns when the fence is signaled; while it is not, the call blocks and
\* may time out
ImmediateWait ==
    /\ pc = "imm_wait"
    /\ pc' = IF VK_CHECK(vkWaitForFences(immediateFence)) THEN "loop_test" ELSE "aborted"
    /\ UNCHANGED <<engineVars, quit, events, acquireResult, gpuVars, histVars,
                   dqVars, obsVars, immVars, swapVars, auxVars>>

\* ------------------------------------------------- swapchain recreation
\* destroySwapchain()
DestroySwapchain ==
    /\ pc = "initialized"
    /\ swapchain.live
    /\ nCreate <= MaxRecreate
    /\ swapchain' = [swapchain EXCEPT !.live = FALSE]
    /\ executed' = Append(executed, "destroySwapchain")
    /\ UNCHANGED <<engineVars, cpuVars, gpuVars, waitObserved, flushCount, nSubmit,
                   nPresent, nCompleted, lastPolled, drawsSinceQuit, dqVars,
                   obsVars, immVars, drawImage, nCreate, auxVars>>

\* createSwapchain( w, h )
CreateSwapchain(w, h) ==
    /\ pc = "initialized"
    /\ ~swapchain.live
    /\ swapchain' = swapchainCreated(w, h)
    /\ drawImage' = drawImageCreated(w, h)
    /\ mainDeletionQueue' = push_function(mainDeletionQueue, "destroyDrawImage")
    /\ nCreate' = nCreate + 1
    /\ drawImageReleases' = Append(drawImageReleases, 0)
    /\ UNCHANGED <<drawLog, instVars>>
    /\ UNCHANGED <<isInitialized, stopRendering, frameNumber, renderFence,
                   swapchainSemaphore, renderSemaphore, mainCommandBuffer,
                   deletionQueue, cpuVars, gpuVars, histVars, dqVars, obsVars,
                   immVars>>

\* -------------------------------------------------------------- ShutDown
\* vkDeviceWaitIdle( device ) returns once the queue has no work left
vkDeviceWaitIdleNoWait == TRUE
vkDeviceWaitIdleReturns == (\A s \in Slots : gpuPending[s] = 0) /\ immPending = 0

\* ShutDown called once MainLoop has returned, or without MainLoop having been
\* called: if ( isInitialized ) vkDeviceWaitIdle( device )
ShutDownWaitIdle ==
    /\ pc \in {"initialized", "loop_exited"}
    /\ isInitialized
    /\ vkDeviceWaitIdleReturns
    /\ executed' = Append(executed, "vkDeviceWaitIdle")
    /\ pc' = "shutdown_destroy"
    /\ UNCHANGED <<engineVars, quit, events, acquireResult, gpuVars, waitObserved,
                   flushCount, nSubmit, nPresent, nCompleted, lastPolled,
                   drawsSinceQuit, dqVars>>
    /\ UNCHANGED <<obsVars, immVars, swapVars, auxVars>>

\* the objects ShutDown destroys for one frameData entry, then that entry's flush
RECURSIVE killFrameData(_, _)
killFrameData(dq, i) ==
    IF i >= FRAME_OVERLAP THEN <<>>
    ELSE <<"vkDestroyCommandPool", "vkDestroyFence", "vkDestroySemaphore",
           "vkDestroySemaphore", "frameData.deletionQueue.flush">>
         \o flushCalls(dq[i]) \o killFrameData(dq, i + 1)

\* mainDeletionQueue.push_function( [ = ] () { vkDestroyImageView( device,
\* drawImage.imageView, nullptr ); vmaDestroyImage( allocator, drawImage.image,
\* drawImage.allocation ); } ): the closure captures this, so when it runs it
\* releases the drawImage members as they are then; the closure registered by
\* the created-th createSwapchain releases the image of the current-th one
closureTarget(created, current) == current

\* releases per created draw image once flush() has run the closures of q
releasesAfterFlush(q, releases, current) ==
    [k \in 1 .. Len(releases) |->
        releases[k] + Cardinality({j \in 1 .. Cardinality({i \in DOMAIN q : q[i] = "destroyDrawImage"}) :
                                     closureTarget(j, current) = k})]

\* an ordering of ShutDown's calls with the device destroyed before the queues
\* are flushed
ShutDownCallsDeviceFirst(dq, mq) ==
    <<"vkDestroyDevice">> \o killFrameData(dq, 0)
      \o <<"mainDeletionQueue.flush">> \o flushCalls(mq)
      \o <<"destroySwapchain", "vkDestroySurfaceKHR",
           "destroy_debug_utils_messenger", "vkDestroyInstance", "SDL_DestroyWindow">>

\* the calls ShutDown makes after vkDeviceWaitIdle, in order: the frameData
\* loop, mainDeletionQueue.flush(), destroySwapchain() and the rest
ShutDownCalls(dq, mq) ==
    killFrameData(dq, 0)
      \o <<"mainDeletionQueue.flush">> \o flushCalls(mq)
      \o <<"destroySwapchain", "vkDestroySurfaceKHR", "vkDestroyDevice",
           "destroy_debug_utils_messenger", "vkDestroyInstance", "SDL_DestroyWindow">>

\* the rest of ShutDown, from the frameData loop to SDL_DestroyWindow
ShutDownDestroy ==
    /\ pc = "shutdown_destroy"
    /\ executed' = executed \o ShutDownCalls(deletionQueue, mainDeletionQueue)
    /\ deletionQueue' = [s \in Slots |-> flushClear(deletionQueue[s])]
    /\ mainDeletionQueue' = flushClear(mainDeletionQueue)
    /\ renderFence' = [s \in Slots |-> "destroyed"]
    /\ swapchainSemaphore' = [s \in Slots |-> "destroyed"]
    /\ renderSemaphore' = [s \in Slots |-> "destroyed"]
    /\ mainCommandBuffer' = [s \in Slots |-> "destroyed"]
    /\ pc' = "terminated"
    /\ UNCHANGED <<isInitialized, stopRendering, frameNumber, quit, events,
                   acquireResult, gpuVars, waitObserved, flushCount, nSubmit,
                   nPresent, nCompleted, lastPolled, drawsSinceQuit, dqVars>>
    /\ immediateFence' = "destroyed"
    /\ immediateCommandBuffer' = "destroyed"
    /\ swapchain' = [swapchain EXCEPT !.live = FALSE]
    /\ drawImage' = [drawImage EXCEPT !.live = FALSE]
    /\ drawImageReleases' = releasesAfterFlush(mainDeletionQueue, drawImageReleases, nCreate)
    /\ UNCHANGED <<obsVars, immPending, nImmediate, nCreate, drawLog, instVars>>

\* ShutDown called again on the same instance: isInitialized is still true, so
\* the body runs again on handles that are already destroyed; the use of the
\* destroyed device either crashes the process or goes on to the destroy calls
ShutDownAgain ==
    /\ pc = "terminated"
    /\ isInitialized
    /\ Cardinality({i \in DOMAIN executed : executed[i] = "vkDeviceWaitIdle"}) < MaxShutDowns
    /\ \E outcome \in {"continues", "crashes"} :
         /\ executed' = executed \o <<"vkDeviceWaitIdle">> \o
                           (IF outcome = "continues"
                              THEN ShutDownCalls(deletionQueue, mainDeletionQueue)
                              ELSE <<>>)
         /\ pc' = IF outcome = "continues" THEN "terminated" ELSE "aborted"
    /\ deletionQueue' = [s \in Slots |-> flushClear(deletionQueue[s])]
    /\ mainDeletionQueue' = flushClear(mainDeletionQueue)
    /\ UNCHANGED <<isInitialized, stopRendering, frameNumber, renderFence,
                   swapchainSemaphore, renderSemaphore, mainCommandBuffer, quit,
                   events, acquireResult, gpuVars, waitObserved, flushCount,
                   nSubmit, nPresent, nCompleted, lastPolled, drawsSinceQuit,
                   dqVars, obsVars, immVars, swapVars, auxVars>>

Next ==
    \/ EngineInit
    \/ MainLoopEnter
    \/ LoopTest
    \/ PollEvent
    \/ BranchPaused
    \/ Sleep
    \/ BranchDraw
    \/ DrawWait
    \/ DrawFlush
    \/ DrawResetFence
    \/ DrawAcquire
    \/ DrawRecord
    \/ DrawSubmit
    \/ DrawPresent
    \/ DrawAdvance
    \/ \E s \in Slots : ImageAvailable(s)
    \/ \E s \in Slots : GPUComplete(s)
    \/ \E s \in Slots : PresentDone(s)
    \/ \E e \in EventTypes : PostEvent(e)
    \/ ShutDownWaitIdle
    \/ ShutDownDestroy

Spec == Init /\ [][Next]_vars

\* Init followed by swapchain recreations with any requested extent, and by
\* ShutDown
NextSwapchain ==
    \/ EngineInit
    \/ DestroySwapchain
    \/ \E w \in Widths, h \in Heights : CreateSwapchain(w, h)
    \/ ShutDownWaitIdle
    \/ ShutDownDestroy

SpecSwapchain == Init /\ [][NextSwapchain]_vars

\* ------------------------------------- the global engine pointer
\* (src/Prometheus/engine.cpp) Init called on instance i:
\* assert( currentInstance == nullptr ); currentInstance = this; the window is
\* created; isInitialized = true. A failing assert ends the process in a build
\* that keeps asserts and is no statement at all in a build with NDEBUG.
InstanceInit(i) ==
    /\ pc = "constructed"
    /\ nCalls < MaxCalls
    /\ nCalls' = nCalls + 1
    /\ \E assertsKept \in BOOLEAN :
         IF assertsKept /\ currentInstance # "nullptr"
           THEN /\ pc' = "aborted"
                /\ UNCHANGED <<currentInstance, instances>>
           ELSE /\ currentInstance' = i
                /\ instances' = [instances EXCEPT ![i] =
                                   [isInitialized |-> TRUE, window |-> "created"]]
                /\ pc' = pc
    /\ UNCHANGED <<engineVars, quit, events, acquireResult, gpuVars, histVars,
                   dqVars, obsVars, immVars, swapVars, drawLog, drawImageReleases>>

\* (src/Prometheus/engine.cpp) ShutDown called on instance i:
\* if ( isInitialized ) SDL_DestroyWindow( window ); currentInstance = nullptr
InstanceShutDown(i) ==
    /\ pc = "constructed"
    /\ nCalls < MaxCalls
    /\ nCalls' = nCalls + 1
    /\ instances' = IF instances[i].isInitialized
                      THEN [instances EXCEPT ![i].window = "destroyed"]
                      ELSE instances
    /\ currentInstance' = "nullptr"
    /\ UNCHANGED <<engineVars, cpuVars, gpuVars, histVars, dqVars, obsVars,
                   immVars, swapVars, drawLog, drawImageReleases>>

\* Init and ShutDown called in any order on any of the instances
NextInstances ==
    \/ \E i \in Instances : InstanceInit(i)
    \/ \E i \in Instances : InstanceShutDown(i)

SpecInstances == Init /\ [][NextInstances]_vars

\* immediate_submit has no caller in the program: a frame loop that receives no
\* events and calls immediate_submit between iterations
NextImmediate ==
    \/ EngineInit
    \/ MainLoopEnter
    \/ LoopTest
    \/ BranchDraw
    \/ DrawWait
    \/ DrawFlush
    \/ DrawResetFence
    \/ DrawAcquire
    \/ DrawRecord
    \/ DrawSubmit
    \/ DrawPresent
    \/ DrawAdvance
    \/ \E s \in Slots : ImageAvailable(s)
    \/ \E s \in Slots : GPUComplete(s)
    \/ \E s \in Slots : PresentDone(s)
    \/ ImmediateReset
    \/ ImmediateRecord
    \/ ImmediateSubmit
    \/ GPUCompleteImmediate
    \/ ImmediateWait

SpecImmediate == Init /\ [][NextImmediate]_vars

\* the public calls in any order a caller may make them: as above, and ShutDown
\* called more than once
NextCalls ==
    \/ Next
    \/ ShutDownAgain

SpecCalls == Init /\ [][NextCalls]_vars


\* ================================================================ claims

\* ---- steps of the thread running MainLoop (as opposed to the device's)
MainLoopStep ==
    \/ LoopTest \/ PollEvent \/ BranchPaused \/ Sleep \/ BranchDraw
    \/ DrawWait \/ DrawFlush \/ DrawResetFence \/ DrawAcquire \/ DrawRecord
    \/ DrawSubmit \/ DrawPresent \/ DrawAdvance

\* C1: Draw flushes a slot's deletion queue if and only if the fence wait on
\* that same slot returned successfully immediately before, in the same
\* iteration: flushes never outnumber observed waits, an observed wait is
\* owed exactly one flush and only while Draw stands between its wait and its
\* flush, and at that point the slot's fence is signaled.
C1_FlushIffFenceObserved ==
    \A s \in Slots :
        /\ flushCount[s] <= waitObserved[s]
        /\ waitObserved[s] - flushCount[s] =
             (IF pc = "draw_flush" /\ CurrentSlot = s THEN 1 ELSE 0)
        /\ (pc = "draw_flush" /\ CurrentSlot = s) => renderFence[s] = "signaled"

\* C1 witness: slot 0 has been reused (its second flush done) after slot 1's first
C1_Witness ==
    /\ flushCount[0] = 2
    /\ flushCount[1] = 1
    /\ waitObserved[0] = 2

\* frames submitted by Draw whose GPU work has not completed
InFlight == nSubmit - nCompleted

\* C2: with the GPU completing submissions at arbitrary later times, at most
\* FRAME_OVERLAP submitted frames are incomplete in any reachable state, and no
\* slot ever has more than one incomplete submission.
C2_BoundedOverlap ==
    /\ InFlight <= FRAME_OVERLAP
    /\ InFlight >= 0
    /\ \A s \in Slots : gpuPending[s] <= 1

\* C2 witness: FRAME_OVERLAP frames in flight and the CPU waiting to reuse a slot
C2_Witness ==
    /\ InFlight = FRAME_OVERLAP
    /\ pc = "draw_wait"
    /\ renderFence[CurrentSlot] = "unsignaled"

\* a step of the stand-alone queue that is a flush
DQFlushStep == dqFlushes' = dqFlushes + 1

\* C3: flush calls the registered closures in exactly the reverse of their
\* push_function order: the i-th call of a flush is the i-th registration
\* counted from the back of the queue, and every registration is called.
C3_ReverseOrder ==
    [][DQFlushStep =>
         /\ Len(dqRun') = Len(deletors)
         /\ \A i \in 1 .. Len(deletors) :
              dqRun'[i] = deletors[Len(deletors) + 1 - i]]_vars

\* C3 witness: A registered, then B, then a flush that called B and then A
C3_Witness ==
    /\ Len(dqRun) = 2
    /\ dqRun[1].fn = "B" /\ dqRun[1].id = 1
    /\ dqRun[2].fn = "A" /\ dqRun[2].id = 0

\* C4: a flush leaves the queue empty, and a flush of an empty queue calls
\* nothing and leaves it empty, so a second flush right after a flush changes
\* neither the queue nor the record of calls.
C4_FlushIdempotent ==
    [][DQFlushStep =>
         /\ deletors' = <<>>
         /\ (deletors = <<>> => dqLog' = dqLog /\ dqRun' = <<>>)
         /\ flushCalls(deletors') = <<>>]_vars

\* C4 witness: a flush of a non-empty queue followed at once by another flush
C4_Witness ==
    /\ dqFlushes >= 2
    /\ dqRun = <<>>
    /\ deletors = <<>>
    /\ dqLog # <<>>
    /\ dqLog[Len(dqLog)].flush = dqFlushes - 1

\* C5: over any interleaving of push_function and flush, every registration is
\* either still queued (and was registered after the last flush) or was called
\* exactly once, by the first flush after its registration; never both, never twice.
C5_ExactlyOnce ==
    \A n \in 0 .. (dqNextId - 1) :
        LET queued == {i \in DOMAIN deletors : deletors[i].id = n}
            called == {i \in DOMAIN dqLog : dqLog[i].id = n}
        IN  /\ Cardinality(queued) + Cardinality(called) = 1
            /\ \A i \in queued : deletors[i].epoch = dqFlushes
            /\ \A i \in called : dqLog[i].flush = dqLog[i].epoch + 1

\* C5 witness: registrations made before and after a flush, called by two
\* different flushes, with one more still queued
C5_Witness ==
    /\ Len(dqLog) >= 2
    /\ dqLog[1].flush = 1
    /\ dqLog[Len(dqLog)].flush = 2
    /\ deletors # <<>>

\* C6: frameNumber grows by exactly 1 on the step that completes a Draw and is
\* left alone by every other step; the current slot then moves to the next of
\* the FRAME_OVERLAP slots in cyclic order; whenever the loop is back at its
\* test, frameNumber equals the number of frames submitted and presented.
C6_FrameCounter ==
    [][/\ (pc = "draw_advance" /\ pc' # pc) =>
            /\ frameNumber' = frameNumber + 1
            /\ CurrentSlot' = (CurrentSlot + 1) % FRAME_OVERLAP
            /\ CurrentSlot' # CurrentSlot
       /\ ~(pc = "draw_advance" /\ pc' # pc) => frameNumber' = frameNumber
       /\ pc' = "loop_test" => (frameNumber' = nSubmit' /\ frameNumber' = nPresent')
       /\ (pc' \in DrawPcs /\ frameNumber' >= FRAME_OVERLAP) =>
            CurrentSlot' = getCurrentFrame(frameNumber' - FRAME_OVERLAP)]_vars

\* C6 witness: FRAME_OVERLAP + 1 iterations completed, the slot index wrapped
C6_Witness ==
    /\ frameNumber = FRAME_OVERLAP + 1
    /\ CurrentSlot = 1
    /\ pc = "loop_test"

\* C7: while stopRendering holds inside the loop, no step submits or presents,
\* changes the frame counter or a slot's deletion queue, or resets a fence; and
\* the steps of the loop itself leave every slot's fence, semaphores and
\* command buffer and the device's pending work exactly as they were.
C7_PausedFrame ==
    [][(stopRendering /\ pc \in LoopPcs) =>
         /\ UNCHANGED <<frameNumber, nSubmit, nPresent, deletionQueue, flushCount>>
         /\ \A s \in Slots : renderFence[s] = "signaled" => renderFence'[s] = "signaled"
         /\ MainLoopStep =>
              UNCHANGED <<renderFence, swapchainSemaphore, renderSemaphore,
                          mainCommandBuffer, gpuPending, presentPending,
                          mainDeletionQueue, executed>>]_vars

\* C7 witness: an idle iteration is asleep while a submitted frame is in flight
C7_Witness ==
    /\ stopRendering
    /\ pc = "sleep"
    /\ InFlight > 0

\* C8: polling a minimize event sets stopRendering in that very step, so the
\* Draw of that iteration is skipped; while stopRendering holds the loop enters
\* no Draw and issues no submission; and stopRendering is cleared only by
\* polling a restore event.
C8_MinimizePauses ==
    [][/\ (pc = "poll" /\ events # <<>> /\ Head(events) = "MINIMIZED"
             /\ lastPolled' = "MINIMIZED" /\ events' = Tail(events))
            => stopRendering'
       /\ (stopRendering /\ pc \in LoopPcs) => (nSubmit' = nSubmit /\ pc' \notin DrawPcs)
       /\ (stopRendering /\ ~stopRendering') =>
            (pc = "poll" /\ events # <<>> /\ Head(events) = "RESTORED")]_vars

\* C8 witness: frames were drawn, then a minimize event was polled and the
\* iteration went to sleep instead of drawing
C8_Witness ==
    /\ lastPolled = "MINIMIZED"
    /\ stopRendering
    /\ pc = "sleep"
    /\ nSubmit > 0

\* C9 as stated: once the quit event has been polled, no Draw is executed
C9_NoDrawAfterQuit == quit => pc \notin DrawPcs

\* C9 amended: after the quit event has been polled at most one more Draw is
\* begun (that of the iteration that polled it), quit stays set, and the loop
\* test that follows leaves MainLoop, after which no Draw is entered.
C9_ExitAfterIteration ==
    [][/\ drawsSinceQuit' <= 1
       /\ (quit /\ pc \in LoopPcs) => quit'
       /\ (pc = "loop_test" /\ quit /\ pc' # pc) => pc' = "loop_exited"
       /\ (pc \in {"loop_exited", "shutdown_destroy", "terminated"}) => pc' \notin LoopPcs]_vars

\* C9 witness: MainLoop has exited after the one Draw that followed the quit event
C9_Witness ==
    /\ pc = "loop_exited"
    /\ drawsSinceQuit = 1
    /\ quit

\* C10 as stated: when the acquire reports a stale swapchain the program does
\* not terminate and no slot is left with an unsignaled fence that no pending
\* submission will signal.
C10_StaleSwapchainRecovered ==
    acquireResult = VK_ERROR_OUT_OF_DATE_KHR =>
        /\ pc # "aborted"
        /\ \A s \in Slots : renderFence[s] = "unsignaled" => gpuPending[s] > 0

\* frames among 0 .. n-1 that were drawn on slot s
FramesOnSlot(s, n) == Cardinality({f \in 0 .. (n - 1) : getCurrentFrame(f) = s})

\* C11 as stated: after a timeout of the fence wait or of the acquire, the
\* run is fatally ended and the iteration has done no flush, no fence reset,
\* no submission and no frame-counter increment for its slot.
C11_TimeoutNoEffect ==
    (waitResult = VK_TIMEOUT \/ acquireResult = VK_TIMEOUT) =>
        /\ pc = "aborted"
        /\ flushCount[CurrentSlot] = FramesOnSlot(CurrentSlot, frameNumber)
        /\ resetCount[CurrentSlot] = FramesOnSlot(CurrentSlot, frameNumber)
        /\ nSubmit = frameNumber

\* C11 amended: a timeout of the fence wait is fatal before the iteration has
\* flushed, reset the fence or submitted; a timeout of the acquire is fatal
\* after that iteration's one flush and one fence reset, before any
\* submission; in both cases the frame counter is not incremented and the
\* thread stays where the fatal check left it.
C11_TimeoutFatal ==
    /\ waitResult = VK_TIMEOUT =>
         /\ pc = "aborted"
         /\ flushCount[CurrentSlot] = FramesOnSlot(CurrentSlot, frameNumber)
         /\ resetCount[CurrentSlot] = FramesOnSlot(CurrentSlot, frameNumber)
         /\ nSubmit = frameNumber /\ nPresent = frameNumber
         /\ renderFence[CurrentSlot] = "unsignaled" => gpuPending[CurrentSlot] > 0
    /\ acquireResult = VK_TIMEOUT =>
         /\ pc = "aborted"
         /\ flushCount[CurrentSlot] = FramesOnSlot(CurrentSlot, frameNumber) + 1
         /\ resetCount[CurrentSlot] = FramesOnSlot(CurrentSlot, frameNumber) + 1
         /\ nSubmit = frameNumber /\ nPresent = frameNumber

\* C11 witness: the wait for a reused slot's fence timed out with its frame
\* still executing
C11_Witness ==
    /\ waitResult = VK_TIMEOUT
    /\ pc = "aborted"
    /\ frameNumber = FRAME_OVERLAP
    /\ gpuPending[CurrentSlot] = 1

\* how often call x occurs in a record of calls, and where
Occurrences(calls, x) == Cardinality({i \in DOMAIN calls : calls[i] = x})
Positions(calls, x) == {i \in DOMAIN calls : calls[i] = x}

\* C12: ShutDown of an initialized instance waits for the device to be idle,
\* then flushes every per-slot deletion queue, then flushes the global queue
\* (running all of its closures), then destroys the swapchain, then destroys
\* the device: each of these happens, once (the per-slot flush once per slot),
\* and in this order.
C12_TeardownOrder ==
    pc = "terminated" =>
        /\ Occurrences(executed, "vkDeviceWaitIdle") = 1
        /\ Occurrences(executed, "frameData.deletionQueue.flush") = FRAME_OVERLAP
        /\ Occurrences(executed, "mainDeletionQueue.flush") = 1
        /\ Occurrences(executed, "destroySwapchain") = 1
        /\ Occurrences(executed, "vkDestroyDevice") = 1
        /\ \A a \in Positions(executed, "vkDeviceWaitIdle") :
           \A b \in Positions(executed, "frameData.deletionQueue.flush") :
           \A c \in Positions(executed, "mainDeletionQueue.flush") :
           \A d \in Positions(executed, "destroySwapchain") :
           \A e \in Positions(executed, "vkDestroyDevice") :
              /\ a < b /\ b < c /\ c < d /\ d < e
              /\ \A i \in 1 .. Len(InitRegistrations) :
                   \E k \in Positions(executed, InitRegistrations[i]) : c < k /\ k < d

\* C12 witness: ShutDown has run to its end after frames were drawn
C12_Witness ==
    /\ pc = "terminated"
    /\ frameNumber >= FRAME_OVERLAP
    /\ executed[Len(executed)] = "SDL_DestroyWindow"

\* C13 as stated: for any sequence of public calls, ShutDown more than once
\* included, no handle is destroyed twice, and the fences and the device are
\* destroyed only when no submission is outstanding.
C13_NoDoubleDestroy ==
    /\ Occurrences(executed, "vkDestroyDevice") <= 1
    /\ Occurrences(executed, "vkDestroyFence") <= FRAME_OVERLAP
    /\ Occurrences(executed, "destroySwapchain") <= 1
    /\ pc = "shutdown_destroy" => \A s \in Slots : gpuPending[s] = 0

\* C14: the global deletion queue is flushed at most once, and exactly once
\* when ShutDown has run; before ShutDown's destroy step (in Init, MainLoop
\* and Draw) it has not been flushed and holds every registration made by
\* Init; and the destroy step that flushes it starts with
\* no work outstanding on the GPU.
C14_GlobalFlushOnce ==
    /\ Occurrences(executed, "mainDeletionQueue.flush") <= 1
    /\ pc = "terminated" => Occurrences(executed, "mainDeletionQueue.flush") = 1
    /\ pc \notin {"terminated", "constructed"} =>
         /\ Occurrences(executed, "mainDeletionQueue.flush") = 0
         /\ pc # "aborted" => mainDeletionQueue = InitRegistrations
         /\ \A i \in 1 .. Len(InitRegistrations) :
              Occurrences(executed, InitRegistrations[i]) = 0
    /\ pc = "shutdown_destroy" =>
         (\A s \in Slots : gpuPending[s] = 0) /\ immPending = 0

\* C14 witness: the global queue was flushed by a ShutDown that followed frames
\* whose last submission was still executing when MainLoop exited
C14_Witness ==
    /\ pc = "terminated"
    /\ Occurrences(executed, "mainDeletionQueue.flush") = 1
    /\ mainDeletionQueue = <<>>
    /\ nSubmit >= 1

\* C15 as stated: once the global queue has been flushed, every slot's fence
\* has been waited on by the CPU since that fence was last signaled.
C15_FencesWaitedBeforeGlobalFlush ==
    Occurrences(executed, "mainDeletionQueue.flush") > 0 =>
        \A s \in Slots : waitedSinceSignal[s]

\* C15 amended: the global queue is flushed only after vkDeviceWaitIdle has
\* returned, and when the flush is about to run every slot's fence is signaled
\* and no submission is outstanding (the last signal of a fence is covered by
\* the device-idle wait, not by a wait on the fence).
C15_IdleBeforeGlobalFlush ==
    /\ pc = "shutdown_destroy" =>
         \A s \in Slots : renderFence[s] = "signaled" /\ gpuPending[s] = 0
    /\ \A c \in Positions(executed, "mainDeletionQueue.flush") :
         \E a \in Positions(executed, "vkDeviceWaitIdle") : a < c

\* C15 witness: the flush is about to run; slot 0's fence was signaled by the
\* GPU after the last wait on it
C15_Witness ==
    /\ pc = "shutdown_destroy"
    /\ doneCount[0] >= 1
    /\ ~waitedSinceSignal[0]

\* C16: immediate_submit returns only after the GPU has completed its
\* submission. Whenever no immediate_submit is in progress (before the first
\* call and after each normal return) the immediate fence is signaled and no
\* immediate work is outstanding, so the reset at the start of a call acts on
\* an idle fence and command buffer; between the reset and the submit the fence
\* is unsignaled with nothing outstanding; during the wait the fence is
\* unsignaled exactly while the submission is outstanding.
C16_ImmediateSynchronous ==
    /\ pc \in LoopPcs =>
         /\ immPending = 0
         /\ immediateFence = "signaled"
         /\ immediateCommandBuffer # "pending"
    /\ pc \in {"imm_record", "imm_submit"} =>
         immPending = 0 /\ immediateFence = "unsignaled"
    /\ pc = "imm_wait" =>
         \/ immPending = 1 /\ immediateFence = "unsignaled"
         \/ immPending = 0 /\ immediateFence = "signaled"

\* C16 witness: a second immediate_submit has returned
C16_Witness ==
    /\ pc = "loop_test"
    /\ nImmediate >= 2
    /\ immediateFence = "signaled"
    /\ immediateCommandBuffer = "invalid"

\* a step of immediate_submit, or of the device executing its submission
ImmediateStep ==
    \/ pc' # pc /\ (pc \in ImmediatePcs \/ pc' \in ImmediatePcs)
    \/ immPending' < immPending

\* C17: no step of immediate_submit, and no execution of its submission by the
\* device, changes the frame counter or any slot's fence, semaphores, command
\* buffer, deletion queue or outstanding work, or flushes the global queue.
C17_ImmediateDisjoint ==
    [][ImmediateStep =>
         UNCHANGED <<frameNumber, renderFence, swapchainSemaphore, renderSemaphore,
                     mainCommandBuffer, deletionQueue, gpuPending, presentPending,
                     mainDeletionQueue, executed>>]_vars

\* C17 witness: an immediate_submit has returned while a frame's submission was
\* still outstanding
C17_Witness ==
    /\ pc = "loop_test"
    /\ nImmediate >= 1
    /\ \E s \in Slots : gpuPending[s] > 0 /\ renderFence[s] = "unsignaled"

\* C18: the fence wait of each of the first FRAME_OVERLAP frames finds its
\* slot's fence signaled (no blocking); the wait of a later frame succeeds
\* exactly when every earlier frame of the same slot has completed on the GPU,
\* whatever the state of the other slot.
C18_TwoSlotSteadyState ==
    pc = "draw_wait" =>
        /\ frameNumber < FRAME_OVERLAP =>
             vkWaitForFences(renderFence[CurrentSlot]) = VK_SUCCESS
        /\ vkWaitForFences(renderFence[CurrentSlot]) = VK_SUCCESS <=>
             doneCount[CurrentSlot] = FramesOnSlot(CurrentSlot, frameNumber)

\* C18 witness: frame 2 is at its wait on slot 0, frame 0 has completed and
\* frame 1 has not
C18_Witness ==
    /\ pc = "draw_wait"
    /\ frameNumber = FRAME_OVERLAP
    /\ doneCount[0] = 1
    /\ doneCount[1] = 0
    /\ gpuPending[1] = 1
    /\ vkWaitForFences(renderFence[CurrentSlot]) = VK_SUCCESS

\* C19: on every slot, the submitted work never completes more often than the
\* slot's acquired images have become available, and images are never shown
\* more often than the work submitted for them has completed; the slot's fence
\* is signaled exactly when every reset of it has been followed by the
\* completion of a submission.
C19_GpuOrdering ==
    \A s \in Slots :
        /\ doneCount[s] <= availCount[s]
        /\ shownCount[s] <= doneCount[s]
        /\ (doneCount[s] = resetCount[s] /\ pc \notin {"constructed", "terminated"})
             => renderFence[s] = "signaled"
        /\ doneCount[s] < resetCount[s] => renderFence[s] = "unsignaled"

\* C19 witness: an image of slot 0 was shown while slot 1's frame was still
\* executing
C19_Witness ==
    /\ shownCount[0] = 1
    /\ doneCount[0] = 1
    /\ gpuPending[1] = 1
    /\ shownCount[1] = 0

\* C20 as stated: after destroySwapchain and createSwapchain( w, h ), drawImage
\* has the format it had before and the extent (w, h) of the new swapchain.
C20_DrawImageFollowsRequest ==
    (pc = "initialized" /\ swapchain.live /\ nCreate > 1) =>
        /\ drawImage.format = "VK_FORMAT_R16G16B16A16_SFLOAT"
        /\ drawImage.extent = swapchain.extent

\* C21 as stated: when a fatal error has ended the run, teardown through the
\* deletion queues was attempted first: every per-slot queue and the global
\* queue were flushed before the process terminated.
C21_TeardownOnFatal ==
    pc = "aborted" =>
        /\ Occurrences(executed, "frameData.deletionQueue.flush") = FRAME_OVERLAP
        /\ Occurrences(executed, "mainDeletionQueue.flush") = 1
        /\ mainDeletionQueue = <<>>

\* the calls of one Draw that returns normally, in the order of the source
DrawOrder ==
    <<"vkWaitForFences", "deletionQueue.flush", "vkResetFences",
      "vkAcquireNextImageKHR", "vkResetCommandBuffer", "vkBeginCommandBuffer",
      "vkEndCommandBuffer", "vkQueueSubmit2", "vkQueuePresentKHR", "frameNumber++">>

\* C22 as stated: in every Draw the fence reset and the command buffer reset
\* both precede the acquire.
C22_ResetsBeforeAcquire ==
    \A i \in Positions(drawLog, "vkAcquireNextImageKHR") :
        /\ \E j \in Positions(drawLog, "vkResetFences") : j < i
        /\ \A j \in Positions(drawLog, "vkResetCommandBuffer") : j < i
        /\ pc \in {"draw_submit", "draw_present", "draw_advance", "loop_test"} =>
             \E j \in Positions(drawLog, "vkResetCommandBuffer") : j < i

\* C22 amended: the calls of a Draw are always an initial part of: fence wait,
\* slot queue flush, fence reset, acquire, command buffer reset, record,
\* submit, present, frame counter increment; a Draw that has returned made all
\* of them. Only the fence reset precedes the acquire.
C22_DrawOrder ==
    /\ Len(drawLog) <= Len(DrawOrder)
    /\ \A i \in 1 .. Len(drawLog) : drawLog[i] = DrawOrder[i]
    /\ (pc \in {"loop_test", "poll", "sleep", "loop_exited"} /\ frameNumber > 0)
         => drawLog = DrawOrder
    /\ pc = "draw_acquire" => Len(drawLog) = 3
    /\ pc = "draw_record" => Len(drawLog) = 4
    /\ pc = "draw_submit" => Len(drawLog) = 7

\* C22 witness: the third Draw has returned
C22_Witness ==
    /\ pc = "loop_test"
    /\ frameNumber = 3
    /\ drawLog = DrawOrder

\* C23 as stated: after any number of destroySwapchain / createSwapchain cycles
\* followed by ShutDown, every draw image that was created has been released
\* exactly once, every swapchain created has been destroyed exactly once, and
\* no cleanup action is left in the global queue.
C23_ReleasedExactlyOnce ==
    (pc = "terminated" /\ Occurrences(executed, "destroySwapchain") = nCreate) =>
        /\ Len(drawImageReleases) = nCreate
        /\ \A k \in 1 .. nCreate : drawImageReleases[k] = 1
        /\ mainDeletionQueue = <<>>

\* the instances that have been initialized and not yet shut down
LiveInstances ==
    {i \in Instances : instances[i].isInitialized /\ instances[i].window = "created"}

\* C24 as stated: for any sequence of Init and ShutDown calls on the instances,
\* the global pointer is non-null exactly when some instance has been
\* initialized and not yet shut down, and it designates that instance (so at
\* most one instance is initialized at a time).
C24_CurrentInstance ==
    pc # "aborted" =>
        /\ currentInstance # "nullptr" <=> LiveInstances # {}
        /\ currentInstance # "nullptr" => LiveInstances = {currentInstance}

\* C25: whenever the thread is between two Draw calls (in MainLoop outside
\* Draw, or after MainLoop has returned) every slot's render fence is either
\* signaled with no submission outstanding, or unsignaled with exactly one
\* submission outstanding that will signal it; and whenever a Draw waits on an
\* unsignaled fence, a submission that will signal it is outstanding.
C25_FenceNeverOrphaned ==
    /\ pc \in {"loop_test", "poll", "sleep", "loop_exited"} =>
         \A s \in Slots :
            \/ renderFence[s] = "signaled" /\ gpuPending[s] = 0
            \/ renderFence[s] = "unsignaled" /\ gpuPending[s] = 1
    /\ (pc = "draw_wait" /\ renderFence[CurrentSlot] = "unsignaled") =>
         gpuPending[CurrentSlot] = 1

\* C25 witness: between two Draw calls, with slot 1's submission outstanding and
\* slot 0's completed
C25_Witness ==
    /\ pc = "loop_test"
    /\ frameNumber = FRAME_OVERLAP
    /\ renderFence[0] = "signaled"
    /\ renderFence[1] = "unsignaled"
    /\ gpuPending[1] = 1

\* C26 as stated: when Draw issues the acquire that signals the slot's
\* swapchainSemaphore, the semaphore's previous signal has been consumed by the
\* previous submit; when Draw issues the submit that signals the slot's
\* renderSemaphore, the semaphore's previous signal has been consumed by the
\* previous present.
C26_SemaphoresNotReused ==
    /\ pc = "draw_acquire" => swapchainSemaphore[CurrentSlot] = "unsignaled"
    /\ pc = "draw_submit" =>
         /\ renderSemaphore[CurrentSlot] = "unsignaled"
         /\ presentPending[CurrentSlot] = 0

\* C27: when ShutDown has run, the allocator's cleanup (registered first) ran
\* after the cleanup of the draw image and of every other resource registered
\* with the global queue, and the device was destroyed after the allocator,
\* after every per-slot queue flush and per-slot handle, and after the
\* swapchain.
C27_DependenciesOutlive ==
    pc = "terminated" =>
        /\ Positions(executed, "vmaDestroyAllocator") # {}
        /\ \A a \in Positions(executed, "vmaDestroyAllocator") :
           /\ \A i \in 2 .. Len(InitRegistrations) :
                /\ Positions(executed, InitRegistrations[i]) # {}
                /\ \A k \in Positions(executed, InitRegistrations[i]) : k < a
           /\ Positions(executed, "vkDestroyDevice") # {}
           /\ \A e \in Positions(executed, "vkDestroyDevice") :
                /\ a < e
                /\ \A x \in {"frameData.deletionQueue.flush", "vkDestroyFence",
                             "vkDestroySemaphore", "vkDestroyCommandPool",
                             "destroySwapchain"} :
                      /\ Positions(executed, x) # {}
                      /\ \A k \in Positions(executed, x) : k < e

\* C27 witness: ShutDown has run (from the paused state) and the allocator's
\* cleanup is on record
C27_Witness ==
    /\ pc = "terminated"
    /\ stopRendering
    /\ Occurrences(executed, "vmaDestroyAllocator") = 1
    /\ Occurrences(executed, "destroyDrawImage") = 1

\* the lifecycle under the scheduling the platform provides: the thread running
\* MainLoop keeps taking steps, the device completes every submission, makes
\* every acquired image available and performs every present, and the event
\* source does not flood the queue (the poll loop drains it and is left)
SpecFair ==
    /\ Spec
    /\ WF_vars(MainLoopStep)
    /\ \A s \in Slots : WF_vars(GPUComplete(s))
    /\ \A s \in Slots : WF_vars(ImageAvailable(s))
    /\ \A s \in Slots : WF_vars(PresentDone(s))
    /\ SF_vars(PollEvent /\ events' = <<>>)
    /\ SF_vars(BranchDraw \/ BranchPaused)

\* a wait of Draw has exceeded its timeout (which a device that completes its
\* work in time does not let happen)
TimedOut == waitResult = VK_TIMEOUT \/ acquireResult = VK_TIMEOUT

\* C28 as stated: under fairness of the device and of the event source, every
\* Draw that is started returns, and once SDL_QUIT has been polled MainLoop
\* exits, whether rendering is paused or not.
C28_Progress ==
    /\ (pc = "draw_wait") ~> (pc = "loop_test" \/ TimedOut)
    /\ (quit /\ pc \in LoopPcs /\ frameNumber < MaxFrames) ~> (pc = "loop_exited" \/ TimedOut)

====
